---- MODULE Spec2Model ----
(***************************************************************************)
(* Serving core of the Guardy AI microservice: the model registry          *)
(* (module globals of app/api/v1/predictions.py and the reload handlers of *)
(* app/api/v1/model_management.py), the prediction handlers, the Redis      *)
(* fingerprint cache (app/cache.py) and the performance monitor             *)
(* (app/utils/performance.py).                                              *)
(***************************************************************************)
EXTENDS Integers, Sequences, FiniteSets, TLC

(***************************************************************************)
(* Bounds of the model                                                     *)
(***************************************************************************)
MaxReloads == 2
MaxRequests == 2
MaxFeature == 0
MaxTime == 300
MaxVal == 1
MaxTtl == 2
MaxClock == 3
MaxCacheOps == 2

(***************************************************************************)
(* Program constants                                                       *)
(***************************************************************************)
CACHE_TTL_FLOOD_RISK == 300

TickStep == CACHE_TTL_FLOOD_RISK

Families == {"risk_scorer", "nowcaster", "anomaly_detector"}

FamilyOrder == <<"risk_scorer", "nowcaster", "anomaly_detector">>

None == 0

(***************************************************************************)
(* Python values that travel through the cache.  A scalar is tagged with   *)
(* its type; a dict is the sequence of its (field, value) items in         *)
(* insertion order.                                                        *)
(***************************************************************************)
IntV(n) == [t |-> "int", v |-> n]

StrV(n) == [t |-> "str", v |-> n]

\* alphabetical order of the field names, as sort_keys=True orders them
FieldOrder == <<"humidity", "latitude", "rainfall_mm">>

FieldNames == {FieldOrder[i] : i \in 1..Len(FieldOrder)}

Rank(f) == CHOOSE i \in 1..Len(FieldOrder) : FieldOrder[i] = f

\* the items of a dict: two dicts are equal when they have the same items
Items(d) == {d[i] : i \in 1..Len(d)}

\* default=str : a value json cannot encode is replaced by str(value)
JsonDefault(x) == IF x.t = "datetime" THEN StrV(x.v) ELSE x

RECURSIVE SortedFrom(_, _)
SortedFrom(d, i) ==
  IF i > Len(FieldOrder) THEN <<>>
  ELSE LET here == {p \in Items(d) : p[1] = FieldOrder[i]}
       IN  (IF here = {} THEN <<>> ELSE <<CHOOSE p \in here : TRUE>>)
           \o SortedFrom(d, i + 1)

\* json.dumps(data, sort_keys=True, default=str)
DumpsSorted(d) ==
  LET s == SortedFrom(d, 1)
  IN  [i \in 1..Len(s) |-> <<s[i][1], JsonDefault(s[i][2])>>]

\* json.dumps(result, default=str) : insertion order is kept
Dumps(d) == [kind |-> "object",
             members |-> [i \in 1..Len(d) |-> <<d[i][1], JsonDefault(d[i][2])>>]]

\* json.loads of a text produced by Dumps
Loads(text) == text.members

\* number of characters of a json text: "{}" has two
TextLen(text) == IF text.kind = "nil" THEN 0 ELSE 2 + Len(text.members)

\* the reply of the store for a missing or expired key
Nil == [kind |-> "nil", members |-> <<>>]

HashSpace == 65536

CodeOf(p) == (Rank(p[1]) * 8) + (IF p[2].t = "int" THEN 0 ELSE 4) + p[2].v + 1

RECURSIVE Sha(_, _)
Sha(text, h) ==
  IF text = <<>> THEN h
  ELSE Sha(Tail(text), (h * 32 + CodeOf(Head(text))) % HashSpace)

\* hashlib.sha256(sorted_data.encode()).hexdigest()[:16]
HashHex(text) == Sha(text, 1)

(***************************************************************************)
(* The Redis store behind CacheManager: a set of entries, one per key,     *)
(* each with the time at which the store expires it.                       *)
(***************************************************************************)
StoreGet(st, key, t) ==
  LET live == {e \in st : e.key = key /\ t < e.exp}
  IN  IF live = {} THEN Nil ELSE (CHOOSE e \in live : TRUE).text

StoreSetex(st, key, ttl, text, t) ==
  {e \in st : e.key # key} \cup {[key |-> key, text |-> text, exp |-> t + ttl]}

StoreDelete(st, keys) == {e \in st : e.key \notin keys}

StoreExpire(st, t) == {e \in st : t < e.exp}

\* what a CacheManager call hands back: Python None, or a dict
PyNone == [raised |-> FALSE, isNone |-> TRUE, val |-> <<>>]

Some(d) == [raised |-> FALSE, isNone |-> FALSE, val |-> d]

Raised == [raised |-> TRUE, isNone |-> TRUE, val |-> <<>>]

\* truth value of an Optional[dict]: None and {} are both false
Truthy(r) == ~r.isNone /\ Len(r.val) > 0

\* CacheManager._generate_cache_key
GenerateCacheKeyUnsorted(prefix, data) ==
  <<prefix, HashHex([i \in 1..Len(data) |-> <<data[i][1], JsonDefault(data[i][2])>>])>>

GenerateCacheKey(prefix, data) == <<prefix, HashHex(DumpsSorted(data))>>

\* CacheManager.get; up is "enabled and redis_client", err is the store
\* raising on this call
CacheGetPropagating(up, st, prefix, data, t, err) ==
  IF ~up THEN PyNone
  ELSE IF err THEN Raised
  ELSE LET cached_value == StoreGet(st, GenerateCacheKey(prefix, data), t)
       IN  IF TextLen(cached_value) > 0 THEN Some(Loads(cached_value)) ELSE PyNone

CacheGetParsedTruth(up, st, prefix, data, t, err) ==
  IF ~up THEN PyNone
  ELSE IF err THEN PyNone
  ELSE LET cached_value == StoreGet(st, GenerateCacheKey(prefix, data), t)
       IN  IF Len(Loads(cached_value)) > 0 THEN Some(Loads(cached_value)) ELSE PyNone

CacheGet(up, st, prefix, data, t, err) ==
  IF ~up THEN PyNone
  ELSE IF err THEN PyNone
  ELSE LET cached_value == StoreGet(st, GenerateCacheKey(prefix, data), t)
       IN  IF TextLen(cached_value) > 0 THEN Some(Loads(cached_value)) ELSE PyNone

\* CacheManager.set: the store after the call
CacheSet(up, st, prefix, data, result, ttl, t, err) ==
  IF ~up THEN st
  ELSE IF err THEN st
  ELSE StoreSetex(st, GenerateCacheKey(prefix, data), ttl, Dumps(result), t)

\* CacheManager.delete
CacheDelete(up, st, prefix, data, err) ==
  IF ~up \/ err THEN st ELSE StoreDelete(st, {GenerateCacheKey(prefix, data)})

\* CacheManager.clear_prefix: scan_iter(match=prefix:*) then delete
CacheClearPrefix(up, st, prefix, err) ==
  IF ~up \/ err THEN st ELSE {e \in st : e.key[1] # prefix}

(***************************************************************************)
(* State                                                                   *)
(***************************************************************************)
VARIABLES
  phase,          \* "startup", "serving" or "stopped" (lifespan of main.py)
  MODELS_LOADED,  \* predictions.MODELS_LOADED
  active,         \* predictions.risk_scorer / nowcaster / anomaly_detector
  instances,      \* the model instances constructed so far, by identity
  rl,             \* the reload handler: its locals, its position, its reply
  reloads,        \* reload calls made so far
  inflight,       \* flood-risk requests suspended at an await
  started,        \* prediction requests received so far
  resp,           \* the last reply of a prediction handler
  cacheUp,        \* cache_manager.enabled and cache_manager.redis_client
  store,          \* contents of the Redis store
  now,            \* clock of the store, in seconds
  pm,             \* performance_monitor
  probe           \* last call of a pure function, the cache manager or a reader

vars == <<phase, MODELS_LOADED, active, instances, rl, reloads,
          inflight, started, resp, cacheUp, store, now, pm, probe>>

registryVars == <<MODELS_LOADED, active, instances, rl, reloads>>

requestVars == <<inflight, started, resp, pm>>

cacheVars == <<store, now>>

NoFamily == [f \in Families |-> None]

NoResult == [f \in Families |-> "none"]

IdleReload == [op |-> "none", pc |-> "idle", idx |-> 0, name |-> "none",
               new_model |-> None, results |-> NoResult, pre |-> NoFamily,
               base |-> 0, loaded |-> {}, attempted |-> {},
               status |-> "none", k |-> 0, http |-> 0]

NoResp == [kind |-> "none", family |-> "none", data |-> <<>>, status |-> 0,
           src |-> "none", val |-> <<>>, reads |-> <<>>,
           gate |-> FALSE, afterPartial |-> FALSE,
           gets |-> 0, sets |-> 0, records |-> 0, inferences |-> 0,
           storeErr |-> FALSE, cacheOff |-> FALSE, modelErr |-> FALSE]

NoProbe == [op |-> "none"]

\* PerformanceMonitor.__init__
NewMonitor == [request_times |-> <<>>, total_requests |-> 0, failed_requests |-> 0,
               cache_hits |-> 0, cache_misses |-> 0]

\* a model instance: the family it belongs to and whether load() has
\* finished populating it
NewInstance(f) == [family |-> f, loaded |-> FALSE]

IsComplete(id) == id # None /\ id \in 1..Len(instances) /\ instances[id].loaded

(***************************************************************************)
(* Startup: lifespan() connects the cache and calls load_models(), which   *)
(* stops at the first family that fails to load.  The process goes on      *)
(* after a failure only when settings.DEBUG is set.                        *)
(***************************************************************************)
LoadedPrefix(n) == [f \in Families |->
                      IF \E i \in 1..n : FamilyOrder[i] = f
                      THEN CHOOSE i \in 1..n : FamilyOrder[i] = f
                      ELSE None]

Startup ==
  /\ phase = "startup"
  /\ \E up \in BOOLEAN, n \in 0..3, debug \in BOOLEAN :
       /\ cacheUp' = up
       /\ instances' = [i \in 1..n |-> [family |-> FamilyOrder[i], loaded |-> TRUE]]
       /\ active' = LoadedPrefix(n)
       /\ MODELS_LOADED' = (n = 3)
       /\ phase' = IF n = 3 \/ debug THEN "serving" ELSE "stopped"
  /\ UNCHANGED <<rl, reloads, inflight, started, resp, store, now, pm, probe>>

(***************************************************************************)
(* Model registry: reload_models and reload_single_model.  Neither handler *)
(* contains an await, so on the event loop each runs from its first        *)
(* statement to its reply without another handler in between.              *)
(***************************************************************************)
IndexOf(f) == CHOOSE i \in 1..3 : FamilyOrder[i] = f

CanReload == phase = "serving" /\ rl.pc \in {"idle", "done"} /\ reloads < MaxReloads

\* sum(1 for r in reload_results.values() if r["status"] == "success")
SuccessfulReloads(results) == Cardinality({f \in Families : results[f] = "success"})

\* identity of the instance load() returns for family f when the loads of
\* the families in ok succeed, in the order of the handler
FreshId(f, ok) ==
  Len(instances) + Cardinality({i \in 1..IndexOf(f) : FamilyOrder[i] \in ok})

RECURSIVE FreshInstances(_, _)
FreshInstances(i, ok) ==
  IF i > 3 THEN <<>>
  ELSE (IF FamilyOrder[i] \in ok
        THEN <<[family |-> FamilyOrder[i], loaded |-> TRUE]>> ELSE <<>>)
       \o FreshInstances(i + 1, ok)

\* the module globals after the loads of the families in ok succeeded and
\* the loads of the others raised
HandlesAfterClearing(ok, tried) ==
  [f \in Families |-> IF f \in ok THEN FreshId(f, ok)
                      ELSE IF f \in tried THEN None ELSE active[f]]

HandlesAfter(ok, tried) ==
  [f \in Families |-> IF f \in ok THEN FreshId(f, ok) ELSE active[f]]

\* reload_results of reload_models when the loads of the families in ok
\* succeed
ReloadResultsStopping(ok) ==
  [f \in Families |->
     IF \E i \in 1..IndexOf(f) : FamilyOrder[i] \notin ok /\ i < IndexOf(f) THEN "none"
     ELSE IF f \in ok THEN "success" ELSE "failed"]

ReloadResults(ok) == [f \in Families |-> IF f \in ok THEN "success" ELSE "failed"]

\* "MODELS_LOADED = successful_reloads == 3"
AllLoaded(successful_reloads) == successful_reloads = 3

\* reload_models
ReloadModels ==
  /\ CanReload
  /\ \E ok \in SUBSET Families :
       LET reload_results == ReloadResults(ok)
           tried == {f \in Families : reload_results[f] # "none"}
           done == {f \in Families : reload_results[f] = "success"}
           errors == {f \in Families : reload_results[f] = "failed"}
           successful_reloads == SuccessfulReloads(reload_results)
       IN  /\ instances' = instances \o FreshInstances(1, done)
           /\ active' = HandlesAfter(done, tried)
           /\ MODELS_LOADED' = AllLoaded(successful_reloads)
           /\ rl' = [IdleReload EXCEPT !.op = "all", !.pc = "done", !.pre = active,
                                       !.base = Len(instances),
                                       !.results = reload_results,
                                       !.attempted = tried, !.loaded = done,
                                       !.k = successful_reloads, !.http = 200,
                                       !.status = IF errors = {} THEN "success"
                                                  ELSE "partial"]
  /\ reloads' = reloads + 1
  /\ UNCHANGED <<phase, requestVars, cacheUp, cacheVars, probe>>

\* reload_single_model
ReloadSingleModel ==
  /\ CanReload
  /\ \E model_name \in Families \cup {"unknown"}, ok \in BOOLEAN :
       IF model_name \notin Families
       THEN /\ rl' = [IdleReload EXCEPT !.op = "single", !.pc = "done",
                                        !.name = model_name, !.pre = active,
                                        !.base = Len(instances),
                                        !.status = "failed", !.http = 404]
            /\ UNCHANGED <<instances, active>>
       ELSE LET done == IF ok THEN {model_name} ELSE {}
            IN  /\ instances' = instances \o FreshInstances(1, done)
                /\ active' = HandlesAfter(done, {model_name})
                /\ rl' = [IdleReload EXCEPT !.op = "single", !.pc = "done",
                                            !.name = model_name, !.pre = active,
                                            !.base = Len(instances),
                                            !.attempted = {model_name}, !.loaded = done,
                                            !.status = IF ok THEN "success" ELSE "failed",
                                            !.http = IF ok THEN 200 ELSE 500]
  /\ reloads' = reloads + 1
  /\ UNCHANGED <<phase, MODELS_LOADED, requestVars, cacheUp, cacheVars, probe>>

(***************************************************************************)
(* Performance monitor                                                     *)
(***************************************************************************)
\* PerformanceMonitor.record_request
RecordRequest(m, duration_ms, cached, failed) ==
  [m EXCEPT !.total_requests = m.total_requests + 1,
            !.failed_requests = IF failed THEN m.failed_requests + 1 ELSE m.failed_requests,
            !.request_times = IF failed THEN m.request_times
                              ELSE Append(m.request_times, duration_ms),
            !.cache_hits = IF cached THEN m.cache_hits + 1 ELSE m.cache_hits,
            !.cache_misses = IF cached THEN m.cache_misses ELSE m.cache_misses + 1]

\* (time.perf_counter() - start_time) * 1000 : a hit answers faster than
\* a computed reply
ElapsedMs(cached) == IF cached THEN 1 ELSE 2

(***************************************************************************)
(* Prediction handlers                                                     *)
(***************************************************************************)
\* "if not MODELS_LOADED or <family> is None"
UnavailableNever(f) == FALSE

Unavailable(f) == ~MODELS_LOADED \/ active[f] = None

\* request.model_dump() of a FloodRiskRequest
FloodData(x) == << <<"rainfall_mm", IntV(x)>>, <<"latitude", IntV(0)>> >>

FloodRequests == {FloodData(x) : x \in 0..MaxFeature}

\* the probability the external model returns: fixed by the instance and
\* the features, in percent
ModelOutput(h, data) == (37 * h + 11 * data[1][2].v) % 101

\* response.model_dump(mode='json') of the FloodRiskResponse
FloodResponse(h, data, t) ==
  << <<"flood_probability", IntV(ModelOutput(h, data))>>, <<"timestamp", StrV(t)>> >>

\* a reload was reported as partial and nothing was reloaded since
AfterPartialReload == rl.pc = "done" /\ rl.op = "all" /\ rl.status = "partial"

\* a request as it enters its handler
NewRequest(kind, f, data) ==
  [NoResp EXCEPT !.kind = kind, !.family = f, !.data = data,
                 !.gate = IF f \in Families THEN active[f] # None ELSE FALSE,
                 !.afterPartial = AfterPartialReload]

Rejected(r) == [r EXCEPT !.status = 503]

\* one more read of the module global of the request's family
ReadHandle(r) ==
  [r EXCEPT !.reads = Append(r.reads, active[r.family])]


\* what an inference on handle h does: outcome out is the model's own,
\* unless there is no instance or the instance is not trained
Inference(h, out) ==
  IF h = None THEN "error"
  ELSE IF ~IsComplete(h) THEN "value_error"
  ELSE out

Outcomes == {"ok", "value_error", "error"}

StatusOf(res) == IF res = "ok" THEN 200 ELSE IF res = "value_error" THEN 400 ELSE 500

\* predict_flood_risk from the return of cache_manager.get up to the call
\* of cache_manager.set or the reply; yields the request and the monitor
FloodAfterGet(r0, cached_result, out, m) ==
  IF cached_result.raised
  THEN [r |-> [r0 EXCEPT !.status = 500, !.records = r0.records + 1, !.storeErr = TRUE],
        pm |-> RecordRequest(m, ElapsedMs(FALSE), FALSE, TRUE), more |-> FALSE]
  ELSE IF Truthy(cached_result)
  THEN [r |-> [r0 EXCEPT !.status = 200, !.src = "cache", !.val = cached_result.val,
                         !.records = r0.records + 1],
        pm |-> RecordRequest(m, ElapsedMs(TRUE), TRUE, FALSE), more |-> FALSE]
  ELSE LET r1 == ReadHandle(r0)
           h == active[r0.family]
           res == Inference(h, out)
       IN  IF res = "ok"
           THEN [r |-> [r1 EXCEPT !.inferences = r1.inferences + 1,
                                  !.val = FloodResponse(h, r0.data, now),
                                  !.sets = r1.sets + 1],
                 pm |-> m, more |-> TRUE]
           ELSE [r |-> [r1 EXCEPT !.inferences = r1.inferences + 1, !.modelErr = TRUE,
                                  !.status = StatusOf(res), !.records = r1.records + 1],
                 pm |-> RecordRequest(m, ElapsedMs(FALSE), FALSE, TRUE), more |-> FALSE]

\* the reply of a computed prediction without its record_request call
FloodAfterSetUnrecorded(r0, m) ==
  [r |-> [r0 EXCEPT !.status = 200, !.src = "model"], pm |-> m]

\* predict_flood_risk from the return of cache_manager.set to the reply
FloodAfterSet(r0, m) ==
  [r |-> [r0 EXCEPT !.status = 200, !.src = "model", !.records = r0.records + 1],
   pm |-> RecordRequest(m, ElapsedMs(FALSE), FALSE, FALSE)]

\* predict_flood_risk up to its first suspension.  With the cache off,
\* get() and set() return at once and the handler runs to its reply.
FloodRiskStart ==
  /\ phase = "serving"
  /\ started < MaxRequests
  /\ started' = started + 1
  /\ \E data \in FloodRequests, out \in Outcomes :
       LET r0 == NewRequest("flood_risk", "risk_scorer", data)
       IN  IF Unavailable("risk_scorer")
           THEN /\ resp' = Rejected(IF MODELS_LOADED THEN ReadHandle(r0) ELSE r0)
                /\ UNCHANGED <<inflight, pm>>
           ELSE LET r1 == [ReadHandle(r0) EXCEPT !.gets = 1, !.cacheOff = ~cacheUp]
                IN  IF cacheUp
                    THEN /\ inflight' = inflight \cup
                                 {[id |-> started + 1, pc |-> "await_get", r |-> r1]}
                         /\ UNCHANGED <<resp, pm>>
                    ELSE LET a == FloodAfterGet(r1, CacheGet(cacheUp, store, "flood_risk",
                                                             data, now, FALSE), out, pm)
                             b == FloodAfterSet(a.r, a.pm)
                         IN  /\ resp' = IF a.more THEN b.r ELSE a.r
                             /\ pm' = IF a.more THEN b.pm ELSE a.pm
                             /\ UNCHANGED inflight
  /\ UNCHANGED <<phase, registryVars, cacheUp, cacheVars, probe>>

\* the store answers the get: hit, miss or error
FloodRiskResume ==
  /\ \E q \in inflight, err \in BOOLEAN, out \in Outcomes :
       /\ q.pc = "await_get"
       /\ LET r1 == [q.r EXCEPT !.storeErr = q.r.storeErr \/ err]
              a == FloodAfterGet(r1, CacheGet(cacheUp, store, "flood_risk",
                                              q.r.data, now, err), out, pm)
          IN  /\ pm' = a.pm
              /\ IF a.more
                 THEN /\ inflight' = (inflight \ {q}) \cup
                                       {[id |-> q.id, pc |-> "await_set", r |-> a.r]}
                      /\ UNCHANGED resp
                 ELSE /\ inflight' = inflight \ {q}
                      /\ resp' = a.r
  /\ UNCHANGED <<phase, registryVars, started, cacheUp, cacheVars, probe>>

\* the store answers the setex: stored or error
FloodRiskFinish ==
  /\ \E q \in inflight, err \in BOOLEAN :
       /\ q.pc = "await_set"
       /\ store' = CacheSet(cacheUp, store, "flood_risk", q.r.data, q.r.val,
                            CACHE_TTL_FLOOD_RISK, now, err)
       /\ LET b == FloodAfterSet([q.r EXCEPT !.storeErr = q.r.storeErr \/ err], pm)
          IN  /\ resp' = b.r
              /\ pm' = b.pm
       /\ inflight' = inflight \ {q}
  /\ UNCHANGED <<phase, registryVars, started, cacheUp, now, probe>>

\* n more reads of the family's global
RECURSIVE ReadHandles(_, _)
ReadHandles(r, n) == IF n = 0 THEN r ELSE ReadHandles(ReadHandle(r), n - 1)

\* nowcast_flood: no await, the handler runs from the gate to its reply.
\* short is "len(sequence_array) < nowcaster.sequence_length".
NowcastFlood ==
  /\ phase = "serving"
  /\ started < MaxRequests
  /\ started' = started + 1
  /\ \E short \in BOOLEAN, out \in Outcomes :
       LET r0 == NewRequest("nowcast", "nowcaster", <<>>)
       IN  IF Unavailable("nowcaster")
           THEN resp' = Rejected(IF MODELS_LOADED THEN ReadHandle(r0) ELSE r0)
           ELSE IF short
           THEN resp' = [ReadHandles(r0, 3) EXCEPT !.status = 400]
           ELSE LET r1 == ReadHandles(r0, 4)
                    res == Inference(active["nowcaster"], out)
                IN  resp' = [r1 EXCEPT !.inferences = 1, !.status = StatusOf(res),
                                       !.modelErr = res # "ok",
                                       !.src = IF res = "ok" THEN "model" ELSE "none"]
  /\ UNCHANGED <<phase, registryVars, inflight, pm, cacheUp, cacheVars, probe>>

\* detect_anomaly: no await either
DetectAnomaly ==
  /\ phase = "serving"
  /\ started < MaxRequests
  /\ started' = started + 1
  /\ \E out \in Outcomes :
       LET r0 == NewRequest("anomaly", "anomaly_detector", <<>>)
       IN  IF Unavailable("anomaly_detector")
           THEN resp' = Rejected(IF MODELS_LOADED THEN ReadHandle(r0) ELSE r0)
           ELSE LET r1 == ReadHandles(r0, 2)
                    res == Inference(active["anomaly_detector"], out)
                IN  resp' = [r1 EXCEPT !.inferences = 1, !.status = StatusOf(res),
                                       !.modelErr = res # "ok",
                                       !.src = IF res = "ok" THEN "model" ELSE "none"]
  /\ UNCHANGED <<phase, registryVars, inflight, pm, cacheUp, cacheVars, probe>>

\* generate_evacuation_zones: computed from the request alone
GenerateEvacuationZones ==
  /\ phase = "serving"
  /\ started < MaxRequests
  /\ started' = started + 1
  /\ resp' = [NewRequest("evacuation", "none", <<>>) EXCEPT !.status = 200, !.src = "model"]
  /\ UNCHANGED <<phase, registryVars, inflight, pm, cacheUp, cacheVars, probe>>

\* time passes; the store drops what has expired
Tick ==
  /\ phase = "serving"
  /\ now + TickStep <= MaxTime
  /\ now' = now + TickStep
  /\ store' = StoreExpire(store, now + TickStep)
  /\ UNCHANGED <<phase, registryVars, requestVars, cacheUp, probe>>

(***************************************************************************)
(* The serving process                                                     *)
(***************************************************************************)
Init ==
  /\ phase = "startup"
  /\ MODELS_LOADED = FALSE
  /\ active = NoFamily
  /\ instances = <<>>
  /\ rl = IdleReload
  /\ reloads = 0
  /\ inflight = {}
  /\ started = 0
  /\ resp = NoResp
  /\ cacheUp = FALSE
  /\ store = {}
  /\ now = 0
  /\ pm = NewMonitor
  /\ probe = NoProbe

Next ==
  \/ Startup
  \/ ReloadModels
  \/ ReloadSingleModel
  \/ FloodRiskStart
  \/ FloodRiskResume
  \/ FloodRiskFinish
  \/ NowcastFlood
  \/ DetectAnomaly
  \/ GenerateEvacuationZones
  \/ Tick

Spec == Init /\ [][Next]_vars

(***************************************************************************)
(* The reload handlers statement by statement, with readers of the module  *)
(* globals between any two statements: what a reader on another thread     *)
(* could observe of a reload.                                              *)
(***************************************************************************)
CurFamily == FamilyOrder[rl.idx]

ReloadAllBegin ==
  /\ CanReload
  /\ rl' = [IdleReload EXCEPT !.op = "all", !.pc = "open", !.idx = 1, !.pre = active,
                              !.base = Len(instances)]
  /\ reloads' = reloads + 1
  /\ UNCHANGED <<phase, MODELS_LOADED, active, instances, requestVars,
                 cacheUp, cacheVars, probe>>

ReloadSingleBegin ==
  /\ CanReload
  /\ \E model_name \in Families \cup {"unknown"} :
       rl' = IF model_name \notin Families
             THEN [IdleReload EXCEPT !.op = "single", !.pc = "done", !.name = model_name,
                                     !.pre = active, !.base = Len(instances),
                                     !.status = "failed", !.http = 404]
             ELSE [IdleReload EXCEPT !.op = "single", !.pc = "open", !.name = model_name,
                                     !.idx = IndexOf(model_name), !.pre = active,
                                     !.base = Len(instances)]
  /\ reloads' = reloads + 1
  /\ UNCHANGED <<phase, MODELS_LOADED, active, instances, requestVars,
                 cacheUp, cacheVars, probe>>

\* the handler after load() raised for the current family
AfterFailure(r) ==
  IF r.op = "single"
  THEN [r EXCEPT !.pc = "done", !.new_model = None, !.status = "failed", !.http = 500,
                 !.attempted = r.attempted \cup {FamilyOrder[r.idx]}]
  ELSE [r EXCEPT !.results[FamilyOrder[r.idx]] = "failed", !.new_model = None,
                 !.attempted = r.attempted \cup {FamilyOrder[r.idx]},
                 !.pc = IF r.idx = 3 THEN "status" ELSE "open",
                 !.idx = IF r.idx = 3 THEN 3 ELSE r.idx + 1]

\* the handler after the assignment of the new instance
AfterSwap(r) ==
  IF r.op = "single"
  THEN [r EXCEPT !.pc = "done", !.new_model = None, !.status = "success", !.http = 200,
                 !.loaded = r.loaded \cup {FamilyOrder[r.idx]}]
  ELSE [r EXCEPT !.results[FamilyOrder[r.idx]] = "success", !.new_model = None,
                 !.loaded = r.loaded \cup {FamilyOrder[r.idx]},
                 !.pc = IF r.idx = 3 THEN "status" ELSE "open",
                 !.idx = IF r.idx = 3 THEN 3 ELSE r.idx + 1]

\* load(): the instance is constructed and at once assigned to the global
LoadOpenPublishing ==
  /\ rl.pc = "open"
  /\ \E ok \in BOOLEAN :
       IF ok
       THEN /\ instances' = Append(instances, NewInstance(CurFamily))
            /\ active' = [active EXCEPT ![CurFamily] = Len(instances) + 1]
            /\ rl' = [rl EXCEPT !.pc = "finish", !.new_model = Len(instances) + 1,
                                !.attempted = rl.attempted \cup {CurFamily}]
       ELSE /\ rl' = AfterFailure(rl)
            /\ UNCHANGED <<instances, active>>
  /\ UNCHANGED <<phase, MODELS_LOADED, reloads, requestVars, cacheUp, cacheVars, probe>>

\* load(): read the file and construct the instance, held in a local
LoadOpen ==
  /\ rl.pc = "open"
  /\ \E ok \in BOOLEAN :
       IF ok
       THEN /\ instances' = Append(instances, NewInstance(CurFamily))
            /\ rl' = [rl EXCEPT !.pc = "finish", !.new_model = Len(instances) + 1,
                                !.attempted = rl.attempted \cup {CurFamily}]
       ELSE /\ rl' = AfterFailure(rl)
            /\ UNCHANGED instances
  /\ UNCHANGED <<phase, MODELS_LOADED, active, reloads, requestVars,
                 cacheUp, cacheVars, probe>>

\* load(): populate the instance from the file contents and return it; an
\* instance whose load raised is dropped with the local that held it
LoadFinish ==
  /\ rl.pc = "finish"
  /\ \E ok \in BOOLEAN :
       IF ok
       THEN /\ instances' = [instances EXCEPT ![rl.new_model].loaded = TRUE]
            /\ rl' = [rl EXCEPT !.pc = "swap"]
       ELSE /\ rl' = AfterFailure(rl)
            /\ instances' = SubSeq(instances, 1, Len(instances) - 1)
  /\ UNCHANGED <<phase, MODELS_LOADED, active, reloads, requestVars,
                 cacheUp, cacheVars, probe>>

\* predictions.<family> = new_model
Swap ==
  /\ rl.pc = "swap"
  /\ active' = [active EXCEPT ![CurFamily] = rl.new_model]
  /\ rl' = AfterSwap(rl)
  /\ UNCHANGED <<phase, MODELS_LOADED, instances, reloads, requestVars,
                 cacheUp, cacheVars, probe>>

\* reload_models: the global status and the reply
ReloadAllFinish ==
  /\ rl.pc = "status"
  /\ LET successful_reloads == SuccessfulReloads(rl.results)
         errors == {f \in Families : rl.results[f] = "failed"}
     IN  /\ MODELS_LOADED' = AllLoaded(successful_reloads)
         /\ rl' = [rl EXCEPT !.pc = "done", !.k = successful_reloads, !.http = 200,
                             !.status = IF errors = {} THEN "success" ELSE "partial"]
  /\ UNCHANGED <<phase, active, instances, reloads, requestVars,
                 cacheUp, cacheVars, probe>>

\* a handler reads the global of family f
GetActive ==
  /\ phase = "serving"
  /\ \E f \in Families :
       probe' = [op |-> "get_active", family |-> f, id |-> active[f],
                 complete |-> IsComplete(active[f]),
                 of_family |-> IF active[f] = None THEN f
                               ELSE instances[active[f]].family,
                 pre |-> rl.pre[f], base |-> rl.base,
                 busy |-> rl.pc \notin {"idle", "done"},
                 building |-> /\ rl.pc = "finish"
                              /\ CurFamily = f]
  /\ UNCHANGED <<phase, registryVars, requestVars, cacheUp, cacheVars>>

NextReload ==
  \/ Startup
  \/ ReloadAllBegin
  \/ ReloadSingleBegin
  \/ LoadOpen
  \/ LoadFinish
  \/ Swap
  \/ ReloadAllFinish
  \/ GetActive

SpecReload == Init /\ [][NextReload]_vars

(***************************************************************************)
(* Properties of the model registry                                        *)
(***************************************************************************)
PredictionKinds == {"flood_risk", "nowcast", "anomaly"}

\* C1: after a reload (of one family or of all) in which the load of a
\* family failed, that family's global still holds the instance it held
\* before the reload.
C1_FailedReloadKeepsHandle ==
  rl.pc = "done" =>
    \A f \in rl.attempted \ rl.loaded : active[f] = rl.pre[f]

C1_Witness ==
  /\ rl.pc = "done"
  /\ rl.op = "all"
  /\ rl.loaded # {}
  /\ \E f \in rl.attempted \ rl.loaded : rl.pre[f] # None /\ active[f] = rl.pre[f]

\* C2: after a reload of all families in which some load failed, a request
\* for a family whose global holds an instance is not answered 503.
C2_SiblingsStillServed ==
  (resp.kind \in PredictionKinds /\ resp.afterPartial /\ resp.gate) => resp.status # 503

\* C3: a read of a family's global made at any point of a reload returns the
\* instance held before the reload or an instance this reload has finished
\* loading for that family; an instance still being loaded is never read.
C3_NoPartialHandleRead ==
  probe.op = "get_active" =>
    /\ probe.id # None => probe.complete /\ probe.of_family = probe.family
    /\ probe.busy => (probe.id = probe.pre \/ probe.id > probe.base)

C3_Witness ==
  /\ probe.op = "get_active"
  /\ probe.building
  /\ probe.id # None
  /\ probe.id = probe.pre

\* C4: all the reads a request makes of its family's global return the same
\* instance.
C4_OneInstancePerRequest ==
  resp.kind \in PredictionKinds =>
    \A i, j \in 1..Len(resp.reads) : resp.reads[i] = resp.reads[j]

\* C5: reload_models attempts the three families whatever fails, reports one
\* result per family, counts in k the loads that succeeded, answers
\* "success" exactly when k = 3 and "partial" (never an error reply)
\* otherwise.
C5_ReloadAllPartialSummary ==
  (rl.pc = "done" /\ rl.op = "all") =>
    /\ rl.attempted = Families
    /\ \A f \in Families : rl.results[f] \in {"success", "failed"}
    /\ \A f \in Families : rl.results[f] = "success" <=> f \in rl.loaded
    /\ rl.k = Cardinality(rl.loaded)
    /\ rl.status = "success" <=> rl.k = 3
    /\ rl.k < 3 => rl.status = "partial"
    /\ rl.http = 200

C5_Witness ==
  /\ rl.pc = "done"
  /\ rl.op = "all"
  /\ rl.results["risk_scorer"] = "failed"
  /\ rl.results["nowcaster"] = "success"
  /\ rl.k = 2

\* C6: a request for a family whose global is None is answered 503 before
\* any inference, cache lookup, cache write or monitor record.
C6_UnavailableRejectedFirst ==
  (resp.kind \in PredictionKinds /\ ~resp.gate) =>
    /\ resp.status = 503
    /\ resp.inferences = 0
    /\ resp.gets = 0
    /\ resp.sets = 0
    /\ resp.records = 0

C6_Witness ==
  /\ resp.kind = "flood_risk"
  /\ ~resp.gate
  /\ resp.status = 503
  /\ cacheUp

\* C9: a flood-risk request during which the store raised on get or on set,
\* or which found the cache off, is answered 200 with a result computed by
\* the model; the only failures are those of the inference itself.
C9_CacheFailureIsForcedMiss ==
  (resp.kind = "flood_risk" /\ (resp.storeErr \/ resp.cacheOff)) =>
    \/ resp.modelErr /\ resp.status \in {400, 500}
    \/ /\ resp.status = 200
       /\ resp.src = "model"
       /\ resp.inferences = 1
       /\ resp.records = 1

C9_Witness ==
  /\ resp.kind = "flood_risk"
  /\ resp.storeErr
  /\ resp.status = 200
  /\ resp.src = "model"
  /\ store = {}

\* C10: every prediction request that is served, of every kind, looked the
\* cache up first and, when the result was computed, recorded one latency
\* sample and wrote the result to the cache before the reply.
C10_EveryKindCachedAndRecorded ==
  (resp.kind \in PredictionKinds \cup {"evacuation"} /\ resp.status = 200) =>
    /\ resp.gets = 1
    /\ resp.src = "model" => resp.records = 1 /\ resp.sets = 1

\* C11: whatever the interleaving of the requests, the response stored
\* under a key is not replaced by a different one while the entry has not
\* expired.
C11_CacheEntryReadOnly ==
  [][\A e \in store, e2 \in store' :
       (e2.key = e.key /\ now < e.exp) => e2.text = e.text]_vars

(***************************************************************************)
(* The cache manager on its own: set, get, delete and clear_prefix called  *)
(* on an enabled manager over a store that answers, under a clock.         *)
(***************************************************************************)
CachePrefixes == {"flood_risk", "nowcast"}

\* request dicts: one field, and the two insertion orders of two fields
CachePayloads ==
  {<< <<"latitude", IntV(x)>> >> : x \in 0..MaxVal}
    \cup {<< <<"latitude", IntV(0)>>, <<"humidity", IntV(1)>> >>,
          << <<"humidity", IntV(1)>>, <<"latitude", IntV(0)>> >>}

\* response dicts as the handlers dump them (mode='json'), the empty one
\* included
CacheResults ==
  {<<>>, << <<"model_version", StrV(1)>> >>}
    \cup {<< <<"risk_score", IntV(x)>>, <<"model_version", StrV(1)>> >> : x \in 0..MaxVal}

NoCalls == [op |-> "none", prefix |-> "none", items |-> {}, result |-> PyNone,
            at |-> 0, log |-> {}, n |-> 0]

\* the log without what was written for (prefix, data)
Forget(log, prefix, data) ==
  {w \in log : ~(w.prefix = prefix /\ w.items = Items(data))}

CmSet ==
  /\ probe.n < MaxCacheOps
  /\ \E prefix \in CachePrefixes, data \in CachePayloads,
        result \in CacheResults, ttl \in 1..MaxTtl :
       /\ store' = CacheSet(cacheUp, store, prefix, data, result, ttl, now, FALSE)
       /\ probe' = [op |-> "set", prefix |-> prefix, items |-> Items(data),
                    result |-> PyNone, at |-> now, n |-> probe.n + 1,
                    log |-> Forget(probe.log, prefix, data) \cup
                              {[prefix |-> prefix, items |-> Items(data),
                                v |-> Items(result), at |-> now, ttl |-> ttl]}]
  /\ UNCHANGED <<phase, registryVars, requestVars, cacheUp, now>>

CmGet ==
  /\ probe.n < MaxCacheOps
  /\ \E prefix \in CachePrefixes, data \in CachePayloads :
       probe' = [probe EXCEPT !.op = "get", !.prefix = prefix, !.items = Items(data),
                              !.result = CacheGet(cacheUp, store, prefix, data, now, FALSE),
                              !.at = now, !.n = probe.n + 1]
  /\ UNCHANGED <<phase, registryVars, requestVars, cacheUp, cacheVars>>

CmDelete ==
  /\ probe.n < MaxCacheOps
  /\ \E prefix \in CachePrefixes, data \in CachePayloads :
       /\ store' = CacheDelete(cacheUp, store, prefix, data, FALSE)
       /\ probe' = [probe EXCEPT !.op = "delete", !.prefix = prefix,
                                 !.items = Items(data), !.result = PyNone, !.at = now,
                                 !.n = probe.n + 1,
                                 !.log = Forget(probe.log, prefix, data)]
  /\ UNCHANGED <<phase, registryVars, requestVars, cacheUp, now>>

CmClearPrefix ==
  /\ probe.n < MaxCacheOps
  /\ \E prefix \in CachePrefixes :
       /\ store' = CacheClearPrefix(cacheUp, store, prefix, FALSE)
       /\ probe' = [probe EXCEPT !.op = "clear", !.prefix = prefix, !.items = {},
                                 !.result = PyNone, !.at = now, !.n = probe.n + 1,
                                 !.log = {w \in probe.log : w.prefix # prefix}]
  /\ UNCHANGED <<phase, registryVars, requestVars, cacheUp, now>>

CmTick ==
  /\ now < MaxClock
  /\ now' = now + 1
  /\ store' = StoreExpire(store, now + 1)
  /\ UNCHANGED <<phase, registryVars, requestVars, cacheUp, probe>>

InitCache ==
  /\ phase = "cache"
  /\ MODELS_LOADED = FALSE
  /\ active = NoFamily
  /\ instances = <<>>
  /\ rl = IdleReload
  /\ reloads = 0
  /\ inflight = {}
  /\ started = 0
  /\ resp = NoResp
  /\ cacheUp = TRUE
  /\ store = {}
  /\ now = 0
  /\ pm = NewMonitor
  /\ probe = NoCalls

NextCache ==
  \/ CmSet
  \/ CmGet
  \/ CmDelete
  \/ CmClearPrefix
  \/ CmTick

SpecCache == InitCache /\ [][NextCache]_vars

\* C7: on an enabled manager over a store that answers, get(kind, payload)
\* at the time of the last set(kind, payload, v, ttl) returns v, also when v
\* is empty, and get(kind, payload) once ttl has elapsed since that set
\* returns None.
C7_CacheRoundTrip ==
  probe.op = "get" =>
    \A w \in probe.log :
      (w.prefix = probe.prefix /\ w.items = probe.items) =>
        /\ probe.at = w.at => ~probe.result.isNone /\ Items(probe.result.val) = w.v
        /\ probe.at >= w.at + w.ttl => probe.result.isNone

C7_Witness ==
  /\ probe.op = "get"
  /\ \E w \in probe.log :
       /\ w.prefix = probe.prefix
       /\ w.items = probe.items
       /\ w.v = {}
       /\ probe.at = w.at
       /\ probe.result = Some(<<>>)

(***************************************************************************)
(* _generate_cache_key applied to a request dict, to every reordering of   *)
(* it and under every kind                                                 *)
(***************************************************************************)
KeyItems == {<<f, IntV(x)>> : f \in FieldNames, x \in 0..MaxVal}

\* dicts of at most three fields, in every insertion order
KeyPayloads ==
  UNION {{q \in [1..n -> KeyItems] : \A i, j \in 1..n : q[i][1] = q[j][1] => i = j}
           : n \in 0..3}

\* permute_keys: the dicts with the same items
PermuteKeys(data) == {q \in [1..Len(data) -> Items(data)] : Items(q) = Items(data)}

InitKey ==
  /\ phase = "key"
  /\ MODELS_LOADED = FALSE
  /\ active = NoFamily
  /\ instances = <<>>
  /\ rl = IdleReload
  /\ reloads = 0
  /\ inflight = {}
  /\ started = 0
  /\ resp = NoResp
  /\ cacheUp = TRUE
  /\ store = {}
  /\ now = 0
  /\ pm = NewMonitor
  /\ \E prefix \in CachePrefixes, data \in KeyPayloads :
       probe = [op |-> "input", prefix |-> prefix, data |-> data,
                key |-> <<"none", 0>>, permuted |-> {}, others |-> {}]

GenerateKeys ==
  /\ probe.op = "input"
  /\ probe' = [probe EXCEPT
                 !.op = "key",
                 !.key = GenerateCacheKey(probe.prefix, probe.data),
                 !.permuted = {GenerateCacheKey(probe.prefix, q) :
                                 q \in PermuteKeys(probe.data)},
                 !.others = {GenerateCacheKey(k, probe.data) :
                               k \in CachePrefixes \ {probe.prefix}}]
  /\ UNCHANGED <<phase, registryVars, requestVars, cacheUp, cacheVars>>

SpecKey == InitKey /\ [][GenerateKeys]_vars

\* C8: the key of a dict is the key of every reordering of it, it is the
\* pair of the kind and a hash, and the same dict under another kind has
\* another key.
C8_KeyReorderInvariant ==
  probe.op = "key" =>
    /\ probe.permuted = {probe.key}
    /\ probe.key[1] = probe.prefix
    /\ probe.key \notin probe.others

C8_Witness ==
  /\ probe.op = "key"
  /\ Len(probe.data) = 3
  /\ probe.data[1][1] = "rainfall_mm"
  /\ probe.data[3][1] = "humidity"

(***************************************************************************)
(* The performance monitor on its own: record_request, get_stats (through  *)
(* the metrics endpoint) and reset, statement by statement.  Every caller  *)
(* is an async handler and none of the three methods awaits, so the event  *)
(* loop runs a call from its first statement to its last before it starts  *)
(* another.                                                                *)
(***************************************************************************)
MaxCalls == 3

MaxDuration == 2

\* a float as a fraction <<numerator, denominator>>
Zero == <<0, 1>>

RatEq(a, b) == a[2] # 0 /\ b[2] # 0 /\ a[1] * b[2] = b[1] * a[2]

PyMax(a, b) == IF a >= b THEN a ELSE b

RECURSIVE SumSeq(_)
SumSeq(s) == IF s = <<>> THEN 0 ELSE Head(s) + SumSeq(Tail(s))

RECURSIVE InsertSorted(_, _)
InsertSorted(x, s) ==
  IF s = <<>> THEN <<x>>
  ELSE IF x <= Head(s) THEN <<x>> \o s
  ELSE <<Head(s)>> \o InsertSorted(x, Tail(s))

RECURSIVE SortTimes(_)
SortTimes(s) == IF s = <<>> THEN <<>> ELSE InsertSorted(Head(s), SortTimes(Tail(s)))

\* np.percentile(times_array, q): linear interpolation between the two
\* closest ranks of the sorted samples
Percentile(times, q) ==
  LET a == SortTimes(times)
      k == q * (Len(a) - 1)
      lo == (k \div 100) + 1
      rem == k % 100
  IN  IF rem = 0 THEN <<a[lo] * 100, 100>>
      ELSE <<a[lo] * 100 + (a[lo + 1] - a[lo]) * rem, 100>>

\* PerformanceMonitor.get_stats without its empty-state return: numpy on
\* an empty array
GetStatsUnguarded(m) ==
  [total_requests |-> m.total_requests,
   successful_requests |-> Len(m.request_times),
   failed_requests |-> m.failed_requests,
   success_rate |-> <<Len(m.request_times), PyMax(m.total_requests, 1)>>,
   cache_hits |-> m.cache_hits,
   cache_misses |-> m.cache_misses,
   cache_hit_rate |-> <<m.cache_hits, PyMax(m.cache_hits + m.cache_misses, 1)>>,
   avg_response_time_ms |->
     IF m.request_times = <<>> THEN <<0, 0>>
     ELSE <<SumSeq(m.request_times), Len(m.request_times)>>,
   median_response_time_ms |->
     IF m.request_times = <<>> THEN <<0, 0>> ELSE Percentile(m.request_times, 50),
   p95_response_time_ms |->
     IF m.request_times = <<>> THEN <<0, 0>> ELSE Percentile(m.request_times, 95),
   p99_response_time_ms |->
     IF m.request_times = <<>> THEN <<0, 0>> ELSE Percentile(m.request_times, 99),
   min_response_time_ms |->
     IF m.request_times = <<>> THEN <<0, 0>> ELSE <<SortTimes(m.request_times)[1], 1>>,
   max_response_time_ms |->
     IF m.request_times = <<>> THEN <<0, 0>>
     ELSE <<SortTimes(m.request_times)[Len(m.request_times)], 1>>]

\* PerformanceMonitor.get_stats
GetStats(m) ==
  IF m.request_times = <<>>
  THEN [total_requests |-> m.total_requests,
        failed_requests |-> m.failed_requests,
        success_rate |-> Zero,
        cache_hit_rate |-> Zero]
  ELSE [total_requests |-> m.total_requests,
        successful_requests |-> Len(m.request_times),
        failed_requests |-> m.failed_requests,
        success_rate |-> <<Len(m.request_times), PyMax(m.total_requests, 1)>>,
        cache_hits |-> m.cache_hits,
        cache_misses |-> m.cache_misses,
        cache_hit_rate |-> <<m.cache_hits, PyMax(m.cache_hits + m.cache_misses, 1)>>,
        avg_response_time_ms |-> <<SumSeq(m.request_times), Len(m.request_times)>>,
        median_response_time_ms |-> Percentile(m.request_times, 50),
        p95_response_time_ms |-> Percentile(m.request_times, 95),
        p99_response_time_ms |-> Percentile(m.request_times, 99),
        min_response_time_ms |-> <<SortTimes(m.request_times)[1], 1>>,
        max_response_time_ms |-> <<SortTimes(m.request_times)[Len(m.request_times)], 1>>]

\* dict.get(key, default)
DictGet(d, key, default) == IF key \in DOMAIN d THEN d[key] ELSE default

\* get_performance_metrics: the reply built from perf_stats
GetPerformanceMetrics(perf_stats) ==
  [total_requests |-> DictGet(perf_stats, "total_requests", 0),
   successful_requests |-> DictGet(perf_stats, "successful_requests", 0),
   failed_requests |-> DictGet(perf_stats, "failed_requests", 0),
   success_rate |-> DictGet(perf_stats, "success_rate", Zero),
   average |-> DictGet(perf_stats, "avg_response_time_ms", Zero),
   median |-> DictGet(perf_stats, "median_response_time_ms", Zero),
   p95 |-> DictGet(perf_stats, "p95_response_time_ms", Zero),
   p99 |-> DictGet(perf_stats, "p99_response_time_ms", Zero),
   min |-> DictGet(perf_stats, "min_response_time_ms", Zero),
   max |-> DictGet(perf_stats, "max_response_time_ms", Zero),
   hits |-> DictGet(perf_stats, "cache_hits", 0),
   misses |-> DictGet(perf_stats, "cache_misses", 0),
   hit_rate |-> DictGet(perf_stats, "cache_hit_rate", Zero)]

\* a call of a monitor method in progress: its arguments, its position and
\* its locals
NoFrame == [id |-> 0, op |-> "none", pc |-> "none", loaded |-> FALSE, tmp |-> 0,
            duration_ms |-> 0, cached |-> FALSE, failed |-> FALSE,
            branch |-> "none", seen |-> NewMonitor, m0 |-> NewMonitor]

\* what the last call of the metrics endpoint returned, and the
\* record_request calls made since the last reset
NoSnapshot == [op |-> "none", calls |-> <<>>,
               snap |-> GetPerformanceMetrics(GetStats(NewMonitor)),
               m0 |-> NewMonitor]

FrameId == IF \E c \in inflight : c.id = 1 THEN 2 ELSE 1

\* a call may start while another is between two of its statements
CanEnterPreemptive == Cardinality(inflight) < 2

\* the event loop starts a handler when no other is running
CanEnter == inflight = {}

\* the counters of record_request with a failure added to total_requests
\* a second time instead of to failed_requests
FieldAtFailureInTotal(c) ==
  IF c.pc \in {"total", "second"} THEN "total_requests"
  ELSE IF c.cached THEN "cache_hits" ELSE "cache_misses"

\* the counter the "+= 1" at the frame's position works on
FieldAt(c) ==
  IF c.pc = "total" THEN "total_requests"
  ELSE IF c.pc = "second" THEN "failed_requests"
  ELSE IF c.cached THEN "cache_hits" ELSE "cache_misses"

\* record_request is called
PmRecordBegin ==
  /\ CanEnter
  /\ Len(probe.calls) < MaxCalls
  /\ \E duration_ms \in 1..MaxDuration, cached \in BOOLEAN, failed \in BOOLEAN :
       /\ inflight' = inflight \cup
                        {[NoFrame EXCEPT !.id = FrameId, !.op = "record", !.pc = "total",
                                         !.duration_ms = duration_ms,
                                         !.cached = cached, !.failed = failed]}
       /\ probe' = [NoSnapshot EXCEPT
                      !.calls = Append(probe.calls, [cached |-> cached, failed |-> failed])]
  /\ UNCHANGED <<phase, registryVars, started, resp, cacheUp, cacheVars, pm>>

\* "self.<counter> += 1", first half: the counter is read
PmLoad ==
  /\ \E c \in inflight :
       /\ c.op = "record"
       /\ ~c.loaded
       /\ c.pc = "second" => c.failed
       /\ inflight' = (inflight \ {c}) \cup
                        {[c EXCEPT !.loaded = TRUE, !.tmp = pm[FieldAt(c)]]}
  /\ UNCHANGED <<phase, registryVars, started, resp, cacheUp, cacheVars, pm, probe>>

\* "self.<counter> += 1", second half: the sum is written back
PmStore ==
  /\ \E c \in inflight :
       /\ c.op = "record"
       /\ c.loaded
       /\ pm' = [pm EXCEPT ![FieldAt(c)] = c.tmp + 1]
       /\ inflight' = IF c.pc = "cache" THEN inflight \ {c}
                      ELSE (inflight \ {c}) \cup
                             {[c EXCEPT !.loaded = FALSE,
                                        !.pc = IF c.pc = "total" THEN "second" ELSE "cache"]}
  /\ UNCHANGED <<phase, registryVars, started, resp, cacheUp, cacheVars, probe>>

\* "self.request_times.append(duration_ms)"
PmAppend ==
  /\ \E c \in inflight :
       /\ c.op = "record"
       /\ c.pc = "second"
       /\ ~c.failed
       /\ pm' = [pm EXCEPT !.request_times = Append(pm.request_times, c.duration_ms)]
       /\ inflight' = (inflight \ {c}) \cup {[c EXCEPT !.pc = "cache"]}
  /\ UNCHANGED <<phase, registryVars, started, resp, cacheUp, cacheVars, probe>>

\* reset is called (reset_performance_metrics)
PmResetBegin ==
  /\ CanEnter
  /\ inflight' = inflight \cup {[NoFrame EXCEPT !.id = FrameId, !.op = "reset",
                                                !.pc = "clear"]}
  /\ probe' = NoSnapshot
  /\ UNCHANGED <<phase, registryVars, started, resp, cacheUp, cacheVars, pm>>

\* reset, one assignment at a time
PmResetStep ==
  /\ \E c \in inflight :
       /\ c.op = "reset"
       /\ pm' = CASE c.pc = "clear" -> [pm EXCEPT !.request_times = <<>>]
                  [] c.pc = "total" -> [pm EXCEPT !.total_requests = 0]
                  [] c.pc = "failed" -> [pm EXCEPT !.failed_requests = 0]
                  [] c.pc = "hits" -> [pm EXCEPT !.cache_hits = 0]
                  [] c.pc = "misses" -> [pm EXCEPT !.cache_misses = 0]
       /\ inflight' =
            IF c.pc = "misses" THEN inflight \ {c}
            ELSE (inflight \ {c}) \cup
                   {[c EXCEPT !.pc = CASE c.pc = "clear" -> "total"
                                       [] c.pc = "total" -> "failed"
                                       [] c.pc = "failed" -> "hits"
                                       [] c.pc = "hits" -> "misses"]}
  /\ UNCHANGED <<phase, registryVars, started, resp, cacheUp, cacheVars, probe>>

\* get_performance_metrics calls get_stats
PmGetStatsBegin ==
  /\ CanEnter
  /\ inflight' = inflight \cup {[NoFrame EXCEPT !.id = FrameId, !.op = "get_stats",
                                                !.pc = "guard", !.m0 = pm]}
  /\ probe' = [NoSnapshot EXCEPT !.calls = probe.calls]
  /\ UNCHANGED <<phase, registryVars, started, resp, cacheUp, cacheVars, pm>>

\* get_stats reads one attribute of the monitor
PmRead ==
  /\ \E c \in inflight :
       /\ c.op = "get_stats"
       /\ c.pc # "return"
       /\ inflight' = (inflight \ {c}) \cup
            {CASE c.pc = "guard" ->
                    [c EXCEPT !.branch = IF pm.request_times = <<>> THEN "empty" ELSE "full",
                              !.pc = IF pm.request_times = <<>> THEN "total" ELSE "copy"]
               [] c.pc = "copy" ->
                    [c EXCEPT !.seen.request_times = pm.request_times, !.pc = "total"]
               [] c.pc = "total" ->
                    [c EXCEPT !.seen.total_requests = pm.total_requests, !.pc = "failed"]
               [] c.pc = "failed" ->
                    [c EXCEPT !.seen.failed_requests = pm.failed_requests,
                              !.pc = IF c.branch = "empty" THEN "return" ELSE "hits"]
               [] c.pc = "hits" ->
                    [c EXCEPT !.seen.cache_hits = pm.cache_hits, !.pc = "misses"]
               [] c.pc = "misses" ->
                    [c EXCEPT !.seen.cache_misses = pm.cache_misses, !.pc = "return"]}
  /\ UNCHANGED <<phase, registryVars, started, resp, cacheUp, cacheVars, pm, probe>>

\* get_stats returns and get_performance_metrics builds its reply
PmReturn ==
  /\ \E c \in inflight :
       /\ c.op = "get_stats"
       /\ c.pc = "return"
       /\ probe' = [probe EXCEPT !.op = "get_stats", !.m0 = c.m0,
                                 !.snap = GetPerformanceMetrics(GetStats(c.seen))]
       /\ inflight' = inflight \ {c}
  /\ UNCHANGED <<phase, registryVars, started, resp, cacheUp, cacheVars, pm>>

InitMonitor ==
  /\ phase = "monitor"
  /\ MODELS_LOADED = FALSE
  /\ active = NoFamily
  /\ instances = <<>>
  /\ rl = IdleReload
  /\ reloads = 0
  /\ inflight = {}
  /\ started = 0
  /\ resp = NoResp
  /\ cacheUp = FALSE
  /\ store = {}
  /\ now = 0
  /\ pm = NewMonitor
  /\ probe = NoSnapshot

NextMonitor ==
  \/ PmRecordBegin
  \/ PmLoad
  \/ PmStore
  \/ PmAppend
  \/ PmResetBegin
  \/ PmResetStep
  \/ PmGetStatsBegin
  \/ PmRead
  \/ PmReturn

SpecMonitor == InitMonitor /\ [][NextMonitor]_vars

CountCalls(calls, cached, failed) ==
  Cardinality({i \in 1..Len(calls) : calls[i].cached \in cached /\ calls[i].failed \in failed})

\* C12: the snapshot taken after a sequence of record_request calls since
\* the last reset reports total = number of calls, failed = calls with
\* failed, successful = total - failed, hits = calls with cached, misses =
\* calls without, success rate = successful/total and hit rate =
\* hits/(hits + misses), also when every call had failed.
C12_SnapshotCounts ==
  probe.op = "get_stats" =>
    LET total == Len(probe.calls)
        failed == CountCalls(probe.calls, BOOLEAN, {TRUE})
        hits == CountCalls(probe.calls, {TRUE}, BOOLEAN)
    IN  /\ probe.snap.total_requests = total
        /\ probe.snap.failed_requests = failed
        /\ probe.snap.successful_requests = total - failed
        /\ probe.snap.hits = hits
        /\ probe.snap.misses = total - hits
        /\ total > 0 => /\ RatEq(probe.snap.success_rate, <<total - failed, total>>)
                        /\ RatEq(probe.snap.hit_rate, <<hits, total>>)

\* C13: a snapshot taken when no successful latency is recorded (no call,
\* or failed calls only) reports mean, median, p95, p99, min and max as 0.0.
C13_EmptySnapshotZero ==
  (probe.op = "get_stats" /\ CountCalls(probe.calls, BOOLEAN, {FALSE}) = 0) =>
    /\ probe.snap.average = Zero
    /\ probe.snap.median = Zero
    /\ probe.snap.p95 = Zero
    /\ probe.snap.p99 = Zero
    /\ probe.snap.min = Zero
    /\ probe.snap.max = Zero

C13_Witness ==
  /\ probe.op = "get_stats"
  /\ Len(probe.calls) = 2
  /\ CountCalls(probe.calls, BOOLEAN, {FALSE}) = 0
  /\ probe.snap.failed_requests = 2
  /\ probe.snap.p95 = Zero

MaxProb == 10000

\* get_risk_level
GetRiskLevelExclusive(probability) ==
  IF probability > 8000 THEN "extreme"
  ELSE IF probability > 6000 THEN "high"
  ELSE IF probability > 4000 THEN "moderate"
  ELSE IF probability > 2000 THEN "low"
  ELSE "very_low"

GetRiskLevel(probability) ==
  IF probability >= 8000 THEN "extreme"
  ELSE IF probability >= 6000 THEN "high"
  ELSE IF probability >= 4000 THEN "moderate"
  ELSE IF probability >= 2000 THEN "low"
  ELSE "very_low"

\* very_low < low < moderate < high < extreme
LevelOrder == <<"very_low", "low", "moderate", "high", "extreme">>

LevelRank(level) == CHOOSE i \in 1..Len(LevelOrder) : LevelOrder[i] = level

\* "(probabilities * 100).round(1)" of predict_risk_score without the
\* rounding: the score cut to its first decimal
RiskScoreTruncated(probability) == probability \div 10

\* "(probabilities * 100).round(1)": numpy rounds to the nearest tenth, a
\* half to the even neighbour
RiskScore(probability) ==
  LET q == probability \div 10
      r == probability % 10
  IN  IF r < 5 THEN q
      ELSE IF r > 5 THEN q + 1
      ELSE IF q % 2 = 0 THEN q ELSE q + 1

\* the confidence expression of predict_flood_risk
Confidence(probability) ==
  IF probability < 3000 \/ probability > 7000 THEN 9
  ELSE IF probability < 4000 \/ probability > 6000 THEN 7
  ELSE 5

\* the fields predict_flood_risk derives from the model's probability
RiskResult(probability) ==
  [flood_probability |-> probability,
   risk_score |-> RiskScore(probability),
   risk_level |-> GetRiskLevel(probability),
   confidence |-> Confidence(probability)]

NoCall == [op |-> "none"]

\* get_risk_level is applied to a probability
RiskLevelCall ==
  /\ probe.op = "none"
  /\ \E probability \in 0..MaxProb :
       probe' = [op |-> "risk_level", probability |-> probability,
                 level |-> GetRiskLevel(probability)]
  /\ UNCHANGED <<phase, registryVars, requestVars, cacheUp, cacheVars>>

\* predict_flood_risk derives its result from a probability of the model
RiskResultCall ==
  /\ probe.op = "none"
  /\ \E probability \in 0..MaxProb :
       probe' = [op |-> "risk_result", probability |-> probability,
                 result |-> RiskResult(probability)]
  /\ UNCHANGED <<phase, registryVars, requestVars, cacheUp, cacheVars>>

MaxSeq == 4

MaxSeqLen == 3

MaxHour == 6

MaxList == 3

\* "sequence_array[:nowcaster.sequence_length]": the oldest readings
LastReadingsFromStart(sequence_array, sequence_length) ==
  SubSeq(sequence_array, 1, sequence_length)

\* "sequence_array[-nowcaster.sequence_length:]"
LastReadings(sequence_array, sequence_length) ==
  SubSeq(sequence_array, Len(sequence_array) - sequence_length + 1, Len(sequence_array))

\* nowcast_flood from the length check to the call of the model: the
\* ValueError it raises (answered 400), or the readings it hands to
\* predict_nowcast
PrepareSequence(sequence_array, sequence_length) ==
  IF Len(sequence_array) < sequence_length
  THEN [status |-> 400, need |-> sequence_length, got |-> Len(sequence_array),
        inferences |-> 0, input |-> <<>>]
  ELSE [status |-> 200, need |-> 0, got |-> 0, inferences |-> 1,
        input |-> LastReadings(sequence_array, sequence_length)]

\* np.exp(-0.05 * hours), in ten-thousandths
RECURSIVE DecayFactor(_)
DecayFactor(hours) ==
  IF hours = 0 THEN 10000 ELSE (DecayFactor(hours - 1) * 9512) \div 10000

\* the adjustment of predict_nowcast with the whole of 1 - decay_factor
\* added: np.clip(base_prob * (1 + (1 - decay_factor)), 0, 1)
AdjustedProbSteep(base_prob, hours) ==
  LET adjusted_prob == (base_prob * (20000 - DecayFactor(hours))) \div 10000
  IN  IF adjusted_prob > 10000 THEN 10000 ELSE adjusted_prob

\* np.clip(base_prob * (1 + (1 - decay_factor) * 0.1), 0, 1)
AdjustedProb(base_prob, hours) ==
  LET adjusted_prob == (base_prob * (110000 - DecayFactor(hours))) \div 100000
  IN  IF adjusted_prob > 10000 THEN 10000 ELSE adjusted_prob

\* the keys of the dict predict_nowcast fills, in insertion order: a
\* horizon listed twice has one key
RECURSIVE DictKeys(_, _)
DictKeys(hours_ahead, seen) ==
  IF hours_ahead = <<>> THEN <<>>
  ELSE IF Head(hours_ahead) \in seen THEN DictKeys(Tail(hours_ahead), seen)
  ELSE <<Head(hours_ahead)>> \o DictKeys(Tail(hours_ahead), seen \cup {Head(hours_ahead)})

\* FloodNowcaster.predict_nowcast
PredictNowcast(base_prob, hours_ahead) ==
  LET keys == DictKeys(hours_ahead, {})
  IN  [i \in 1..Len(keys) |->
         [hours |-> keys[i],
          probability |-> AdjustedProb(base_prob, keys[i]),
          confidence |-> DecayFactor(keys[i])]]

\* one HorizonPrediction of nowcast_flood
HorizonPred(entry) ==
  [hours_ahead |-> entry.hours,
   flood_probability |-> entry.probability,
   confidence |-> entry.confidence,
   risk_level |-> GetRiskLevel(entry.probability),
   early_warning |-> entry.probability >= 6000]

RECURSIVE InsertByHours(_, _)
InsertByHours(x, s) ==
  IF s = <<>> THEN <<x>>
  ELSE IF x.hours_ahead < Head(s).hours_ahead THEN <<x>> \o s
  ELSE <<Head(s)>> \o InsertByHours(x, Tail(s))

\* "horizon_predictions.sort(key=lambda x: x.hours_ahead)"
RECURSIVE SortByHours(_)
SortByHours(s) ==
  IF s = <<>> THEN <<>>
  ELSE InsertByHours(s[Len(s)], SortByHours(SubSeq(s, 1, Len(s) - 1)))

\* the list left as predict_nowcast returned it
HorizonPredictionsUnsorted(nowcast_results) ==
  [i \in 1..Len(nowcast_results) |-> HorizonPred(nowcast_results[i])]

\* the horizon list of nowcast_flood
HorizonPredictions(nowcast_results) ==
  SortByHours([i \in 1..Len(nowcast_results) |-> HorizonPred(nowcast_results[i])])

\* "Determine overall trend"
DetermineTrend(horizon_predictions) ==
  IF Len(horizon_predictions) >= 2
  THEN LET first_prob == horizon_predictions[1].flood_probability
           last_prob == horizon_predictions[Len(horizon_predictions)].flood_probability
       IN  IF last_prob > first_prob + 1000 THEN "increasing"
           ELSE IF last_prob < first_prob - 1000 THEN "decreasing"
           ELSE "stable"
  ELSE "stable"

RECURSIVE MaxProbability(_)
MaxProbability(horizon_predictions) ==
  IF horizon_predictions = <<>> THEN 0
  ELSE PyMax(MaxProbability(Tail(horizon_predictions)),
             Head(horizon_predictions).flood_probability)

\* "request.forecast_hours or [1, 3, 6, 12, 24]"
ForecastHours(requested) == IF requested = <<>> THEN <<1, 3, 6, 12, 24>> ELSE requested

\* the NowcastResponse nowcast_flood builds
NowcastResult(base_prob, requested) ==
  LET horizon_predictions ==
        HorizonPredictions(PredictNowcast(base_prob, ForecastHours(requested)))
  IN  [predictions |-> horizon_predictions,
       trend |-> DetermineTrend(horizon_predictions),
       overall_risk_level |-> GetRiskLevel(MaxProbability(horizon_predictions))]

\* readings, named by their time
Readings(n) == [i \in 1..n |-> i]

\* horizon lists of a request
HourLists == UNION {[1..n -> 0..MaxHour] : n \in 0..MaxList}

BaseProbs == {1000 * k : k \in 0..(MaxProb \div 1000)}

\* nowcast_flood checks and cuts the sequence of a request
SequenceCall ==
  /\ probe.op = "none"
  /\ \E n \in 0..MaxSeq, sequence_length \in 1..MaxSeqLen :
       probe' = [op |-> "sequence", sequence |-> Readings(n),
                 sequence_length |-> sequence_length,
                 result |-> PrepareSequence(Readings(n), sequence_length)]
  /\ UNCHANGED <<phase, registryVars, requestVars, cacheUp, cacheVars>>

\* nowcast_flood projects a base probability of the model over the
\* requested horizons
NowcastCall ==
  /\ probe.op = "none"
  /\ \E base_prob \in BaseProbs, requested \in HourLists :
       probe' = [op |-> "nowcast", base_prob |-> base_prob, requested |-> requested,
                 result |-> NowcastResult(base_prob, requested)]
  /\ UNCHANGED <<phase, registryVars, requestVars, cacheUp, cacheVars>>

MaxScore == 80

\* training_stats of an outlier model, in hundredths: the mean and the
\* standard deviation of the scores of its training set
TrainingStats == {[mean_anomaly_score |-> -20, std_anomaly_score |-> 15],
                  [mean_anomaly_score |-> -10, std_anomaly_score |-> 5]}

\* SensorAnomalyDetector.detect_single, from the model's prediction and
\* score on
DetectSingle(is_anomaly, score, training_stats) ==
  LET mean == training_stats.mean_anomaly_score
      std == training_stats.std_anomaly_score
      band == IF ~is_anomaly THEN <<"normal", 8>>
              ELSE IF score < mean - 2 * std THEN <<"high", 9>>
              ELSE IF score < mean - std THEN <<"medium", 7>>
              ELSE <<"low", 5>>
  IN  [is_anomaly |-> is_anomaly, anomaly_score |-> score,
       severity |-> band[1], confidence |-> band[2], threshold |-> mean]

\* get_anomaly_severity
GetAnomalySeverity(score, is_anomaly) ==
  IF ~is_anomaly THEN "normal"
  ELSE IF score < -50 THEN "high"
  ELSE IF score < -30 THEN "medium"
  ELSE "low"

\* the anomaly result detect_anomaly builds from detect_single's
AnomalyResult(result) ==
  LET severity == GetAnomalySeverity(result.anomaly_score, result.is_anomaly)
  IN  [is_anomaly |-> result.is_anomaly,
       anomaly_severity |-> severity,
       anomaly_score |-> result.anomaly_score,
       confidence |-> result.confidence]

\* detect_anomaly classifies a reading the active model has scored
AnomalyCall ==
  /\ probe.op = "none"
  /\ \E is_anomaly \in BOOLEAN, score \in (0 - MaxScore)..0, training_stats \in TrainingStats :
       probe' = [op |-> "anomaly", is_anomaly |-> is_anomaly, score |-> score,
                 training_stats |-> training_stats,
                 result |-> AnomalyResult(DetectSingle(is_anomaly, score, training_stats))]
  /\ UNCHANGED <<phase, registryVars, requestVars, cacheUp, cacheVars>>

MaxRadius == 6

MaxZones == 3

\* the base_time dict of get_evacuation_time with every priority at the
\* default of the lookup
BaseTimeFlat(priority) == 60

\* "base_time.get(priority, 60)"
BaseTime(priority) ==
  CASE priority = "immediate" -> 15
    [] priority = "high" -> 30
    [] priority = "medium" -> 60
    [] priority = "low" -> 120
    [] OTHER -> 60

\* get_evacuation_time without its cap
GetEvacuationTimeUncapped(radius_meters, priority) ==
  BaseTime(priority) + (radius_meters \div 500) * 5

\* get_evacuation_time
GetEvacuationTime(radius_meters, priority) ==
  LET time == BaseTime(priority) + (radius_meters \div 500) * 5
  IN  IF time < 180 THEN time ELSE 180

\* get_evacuation_priority
GetEvacuationPriority(radius_meters, risk_level) ==
  IF radius_meters <= 500
  THEN IF risk_level \in {"extreme", "high"} THEN "immediate" ELSE "high"
  ELSE IF radius_meters <= 1000
  THEN IF risk_level = "extreme" THEN "immediate"
       ELSE IF risk_level = "high" THEN "high"
       ELSE "medium"
  ELSE IF risk_level = "extreme" THEN "high"
       ELSE IF risk_level = "high" THEN "medium" ELSE "low"

RECURSIVE InsertRadius(_, _)
InsertRadius(x, s) ==
  IF s = <<>> THEN <<x>>
  ELSE IF x < Head(s) THEN <<x>> \o s
  ELSE <<Head(s)>> \o InsertRadius(x, Tail(s))

RECURSIVE SortedRadii(_)

\* the radii in the order the request lists them
RadiiAsGiven(zone_radii) == zone_radii

\* "sorted(zone_radii)"
SortedRadii(zone_radii) ==
  IF zone_radii = <<>> THEN <<>>
  ELSE InsertRadius(zone_radii[Len(zone_radii)],
                    SortedRadii(SubSeq(zone_radii, 1, Len(zone_radii) - 1)))

\* "request.zone_radii or [500, 1000, 2000]"
ZoneRadii(requested) == IF requested = <<>> THEN <<500, 1000, 2000>> ELSE requested

\* one EvacuationZone of generate_evacuation_zones
Zone(radius, risk_level) ==
  LET priority == GetEvacuationPriority(radius, risk_level)
  IN  [radius_meters |-> radius,
       priority |-> priority,
       evacuation_time_minutes |-> GetEvacuationTime(radius, priority)]

\* generate_evacuation_zones: the zones of the response, or the 400 that
\* answers a zone the EvacuationZone schema rejects (radius_meters and
\* evacuation_time_minutes are declared ge=0)
EvacuationZones(requested, risk_level) ==
  LET radii == SortedRadii(ZoneRadii(requested))
      zones == [i \in 1..Len(radii) |-> Zone(radii[i], risk_level)]
  IN  IF \E i \in 1..Len(zones) :
           zones[i].radius_meters < 0 \/ zones[i].evacuation_time_minutes < 0
      THEN [status |-> 400, zones |-> <<>>]
      ELSE [status |-> 200, zones |-> zones]

\* the RiskLevel enum
RiskLevels == {LevelOrder[i] : i \in DOMAIN LevelOrder}

\* radii of a request, in metres
Radii == {250 * k : k \in 0..MaxRadius} \cup {-500, 2000, 6000, 33000}

RadiiLists == UNION {[1..n -> Radii] : n \in 0..MaxZones}

\* the priorities get_evacuation_time is asked about: the four of
\* get_evacuation_priority and a string that is none of them
Priorities == {"immediate", "high", "medium", "low", "urgent"}

\* generate_evacuation_zones builds the zones of a request
EvacuationZonesCall ==
  /\ probe.op = "none"
  /\ \E requested \in RadiiLists, risk_level \in RiskLevels :
       probe' = [op |-> "zones", requested |-> requested, risk_level |-> risk_level,
                 result |-> EvacuationZones(requested, risk_level)]
  /\ UNCHANGED <<phase, registryVars, requestVars, cacheUp, cacheVars>>

\* get_evacuation_time is applied to two radii under one priority
EvacuationTimeCall ==
  /\ probe.op = "none"
  /\ \E r1 \in Radii, r2 \in Radii, priority \in Priorities :
       probe' = [op |-> "evacuation_time", r1 |-> r1, r2 |-> r2, priority |-> priority,
                 t1 |-> GetEvacuationTime(r1, priority),
                 t2 |-> GetEvacuationTime(r2, priority)]
  /\ UNCHANGED <<phase, registryVars, requestVars, cacheUp, cacheVars>>

MaxBatch == 3

\* the most locations batch_flood_risk accepts
MaxLocations == 100

\* the locations of batch requests: the features the handlers look at, the
\* probability the model returns for them, in ten-thousandths, and whether
\* the model raises on them
LocationSamples ==
  <<[rainfall_mm |-> 40, humidity |-> 70, temperature |-> 20, month |-> 3,
     probability |-> 2500],
    [rainfall_mm |-> 60, humidity |-> 70, temperature |-> 20, month |-> 3,
     probability |-> 3500],
    [rainfall_mm |-> 60, humidity |-> 90, temperature |-> 5, month |-> 7,
     probability |-> 8700],
    [rainfall_mm |-> 40, humidity |-> 70, temperature |-> 20, month |-> 3,
     probability |-> 5000]>>

\* a batch of n locations, the ones at the positions in failing being those
\* the model raises on
Locations(n, seed, failing) ==
  [i \in 1..n |->
     [features |-> LocationSamples[((seed + i) % Len(LocationSamples)) + 1],
      raises |-> i \in failing]]

\* "Determine contributing factors" of predict_flood_risk
ContributingFactors(features) ==
  LET contributing_factors ==
        (IF features.rainfall_mm > 50 THEN <<"High rainfall">> ELSE <<>>)
        \o (IF features.humidity > 80 THEN <<"High humidity">> ELSE <<>>)
        \o (IF features.temperature < 10 THEN <<"Low temperature">> ELSE <<>>)
        \o (IF features.month \in {6, 7, 8} THEN <<"Monsoon season">> ELSE <<>>)
  IN  IF contributing_factors = <<>> THEN <<"Normal conditions">> ELSE contributing_factors

\* the prediction predict_flood_risk computes on a cache miss
SinglePrediction(features) ==
  [flood_probability |-> features.probability,
   risk_score |-> RiskScore(features.probability),
   risk_level |-> GetRiskLevel(features.probability),
   confidence |-> Confidence(features.probability),
   contributing_factors |-> ContributingFactors(features)]

\* the confidence expression of batch_flood_risk
BatchConfidence(probability) ==
  IF probability < 3000 \/ probability > 7000 THEN 9 ELSE 7

\* the contributing factors of batch_flood_risk
BatchFactors(features) ==
  IF features.rainfall_mm > 50 THEN <<"High rainfall">> ELSE <<"Normal conditions">>

\* "Add placeholder for failed prediction"
FailedPrediction ==
  [flood_probability |-> 0, risk_score |-> 0, risk_level |-> "very_low",
   confidence |-> 0, contributing_factors |-> <<"Prediction failed">>]

\* the body of the loop of batch_flood_risk for one location
BatchPrediction(loc_request) ==
  IF loc_request.raises THEN FailedPrediction
  ELSE [flood_probability |-> loc_request.features.probability,
        risk_score |-> RiskScore(loc_request.features.probability),
        risk_level |-> GetRiskLevel(loc_request.features.probability),
        confidence |-> BatchConfidence(loc_request.features.probability),
        contributing_factors |-> BatchFactors(loc_request.features)]

\* the size check with the limit itself refused
TooManyLocationsInclusive(locations) == Len(locations) >= MaxLocations

\* "if len(request.locations) > 100"
TooManyLocations(locations) == Len(locations) > MaxLocations

\* batch_flood_risk after the availability check
BatchFloodRisk(locations) ==
  IF TooManyLocations(locations)
  THEN [status |-> 400, predictions |-> <<>>, total_locations |-> 0,
        successful_predictions |-> 0, inferences |-> 0]
  ELSE LET predictions == [i \in 1..Len(locations) |-> BatchPrediction(locations[i])]
       IN  [status |-> 200,
            predictions |-> predictions,
            total_locations |-> Len(locations),
            successful_predictions |->
              Cardinality({i \in 1..Len(predictions) : predictions[i].confidence > 0}),
            inferences |-> Len(locations)]

\* batch_flood_risk answers a batch, predict_flood_risk each of its
\* locations on its own
BatchCall ==
  /\ probe.op = "none"
  /\ \E n \in (0..MaxBatch) \cup {MaxLocations, MaxLocations + 1},
        seed \in 0..(Len(LocationSamples) - 1),
        failing \in SUBSET (1..MaxBatch) :
       LET locations == Locations(n, seed, failing)
       IN  probe' = [op |-> "batch", locations |-> locations,
                     result |-> BatchFloodRisk(locations),
                     single |-> [i \in 1..n |-> SinglePrediction(locations[i].features)]]
  /\ UNCHANGED <<phase, registryVars, requestVars, cacheUp, cacheVars>>

InitFn ==
  /\ phase = "fn"
  /\ MODELS_LOADED = FALSE
  /\ active = NoFamily
  /\ instances = <<>>
  /\ rl = IdleReload
  /\ reloads = 0
  /\ inflight = {}
  /\ started = 0
  /\ resp = NoResp
  /\ cacheUp = FALSE
  /\ store = {}
  /\ now = 0
  /\ pm = NewMonitor
  /\ probe = NoCall

NextFn ==
  \/ RiskLevelCall
  \/ RiskResultCall
  \/ SequenceCall
  \/ NowcastCall
  \/ AnomalyCall
  \/ EvacuationZonesCall
  \/ EvacuationTimeCall
  \/ BatchCall

SpecFn == InitFn /\ [][NextFn]_vars

\* C15: the category of a probability p is extreme for p >= 0.8, high for
\* 0.6 <= p < 0.8, moderate for 0.4 <= p < 0.6, low for 0.2 <= p < 0.4 and
\* very_low below, and no smaller probability has a higher category.
C15_RiskLevelMapping ==
  probe.op = "risk_level" =>
    LET p == probe.probability
    IN  /\ probe.level = "extreme" <=> p >= 8000
        /\ probe.level = "high" <=> (6000 <= p /\ p < 8000)
        /\ probe.level = "moderate" <=> (4000 <= p /\ p < 6000)
        /\ probe.level = "low" <=> (2000 <= p /\ p < 4000)
        /\ probe.level = "very_low" <=> p < 2000
        /\ \A k \in 0..(MaxProb \div 100) :
             100 * k < p => LevelRank(GetRiskLevel(100 * k)) <= LevelRank(probe.level)

C15_Witness ==
  /\ probe.op = "risk_level"
  /\ probe.probability = 8000
  /\ probe.level = "extreme"

\* the confidence of a probability p: 0.9 if p < 0.3 or p > 0.7, else 0.7
\* if p < 0.4 or p > 0.6, else 0.5
ClaimedConfidence(p) ==
  IF p < 3000 \/ p > 7000 THEN 9 ELSE IF p < 4000 \/ p > 6000 THEN 7 ELSE 5

\* C16 as stated: for a probability p of the model the result has
\* risk_score = p x 100 exactly and the confidence of p; p = 0.87 gives
\* 87.0, extreme and 0.9.
C16_RiskScoreExact ==
  probe.op = "risk_result" =>
    /\ probe.result.risk_score * 10 = probe.probability
    /\ probe.result.confidence = ClaimedConfidence(probe.probability)
    /\ probe.probability = 8700 =>
         /\ probe.result.risk_score = 870
         /\ probe.result.risk_level = "extreme"
         /\ probe.result.confidence = 9

\* C16 amended: risk_score is p x 100 rounded to one decimal, so within
\* 0.05 of p x 100; the confidence and the example are as stated.
C16_RiskScoreRounded ==
  probe.op = "risk_result" =>
    /\ probe.result.risk_score * 10 - probe.probability \in -5..5
    /\ probe.result.confidence = ClaimedConfidence(probe.probability)
    /\ probe.probability = 8700 =>
         /\ probe.result.risk_score = 870
         /\ probe.result.risk_level = "extreme"
         /\ probe.result.confidence = 9

C16_Witness ==
  /\ probe.op = "risk_result"
  /\ probe.probability = 8749
  /\ probe.result.risk_score = 875
  /\ probe.result.confidence = 9

\* C17: a sequence shorter than the model's sequence_length is answered
\* with a client error that names sequence_length, without an inference; a
\* sequence of at least sequence_length readings is projected from its
\* sequence_length most recent readings.
C17_ShortSequenceRejected ==
  probe.op = "sequence" =>
    LET n == Len(probe.sequence)
        k == probe.sequence_length
    IN  /\ n < k => /\ probe.result.status = 400
                    /\ probe.result.need = k
                    /\ probe.result.inferences = 0
        /\ n >= k => /\ probe.result.status = 200
                     /\ probe.result.inferences = 1
                     /\ probe.result.input = [i \in 1..k |-> probe.sequence[n - k + i]]

C17_Witness ==
  /\ probe.op = "sequence"
  /\ Len(probe.sequence) = 4
  /\ probe.sequence_length = 3
  /\ probe.result.input = <<2, 3, 4>>

SetOf(list) == {list[i] : i \in 1..Len(list)}

HorizonsInOrder(predictions) ==
  \A i, j \in 1..Len(predictions) :
    i < j => /\ predictions[i].hours_ahead < predictions[j].hours_ahead
             /\ predictions[i].confidence > predictions[j].confidence

\* C18 as stated: for every list of requested horizons the result has one
\* entry per requested horizon, in ascending order of hours_ahead, with
\* strictly decreasing confidence.
C18_OneEntryPerRequested ==
  probe.op = "nowcast" =>
    /\ {probe.result.predictions[i].hours_ahead :
          i \in 1..Len(probe.result.predictions)} = SetOf(probe.requested)
    /\ HorizonsInOrder(probe.result.predictions)

\* C18 amended: the same for every non-empty list; for an empty list the
\* result has the five default horizons 1, 3, 6, 12 and 24.
C18_OneEntryPerRequestedOrDefault ==
  probe.op = "nowcast" =>
    /\ {probe.result.predictions[i].hours_ahead :
          i \in 1..Len(probe.result.predictions)} =
         IF probe.requested = <<>> THEN {1, 3, 6, 12, 24} ELSE SetOf(probe.requested)
    /\ HorizonsInOrder(probe.result.predictions)

C18_Witness ==
  /\ probe.op = "nowcast"
  /\ probe.requested = <<6, 1, 6>>
  /\ Len(probe.result.predictions) = 2
  /\ probe.result.predictions[1].hours_ahead = 1

\* C19: the trend of the sorted result is increasing if last - first > 0.1,
\* decreasing if it is < -0.1 and stable otherwise, and the response
\* carries an early_warning flag that is true exactly when some horizon's
\* probability is >= 0.6.
C19_TrendAndEarlyWarning ==
  probe.op = "nowcast" =>
    LET predictions == probe.result.predictions
        diff == predictions[Len(predictions)].flood_probability
                  - predictions[1].flood_probability
    IN  /\ probe.result.trend = IF diff > 1000 THEN "increasing"
                                ELSE IF diff < -1000 THEN "decreasing"
                                ELSE "stable"
        /\ "early_warning" \in DOMAIN probe.result
        /\ probe.result.early_warning =
             \E i \in 1..Len(predictions) : predictions[i].flood_probability >= 6000

\* C20: the anomaly result is (normal, 0.8) for a reading that is not
\* anomalous, and for an anomalous one (high, 0.9) if score < mean - 2 std,
\* (medium, 0.7) if score < mean - std, else (low, 0.5), mean and std being
\* the training statistics of the active model.
C20_SeverityFromTrainingStats ==
  probe.op = "anomaly" =>
    LET mean == probe.training_stats.mean_anomaly_score
        std == probe.training_stats.std_anomaly_score
    IN  <<probe.result.anomaly_severity, probe.result.confidence>> =
          IF ~probe.is_anomaly THEN <<"normal", 8>>
          ELSE IF probe.score < mean - 2 * std THEN <<"high", 9>>
          ELSE IF probe.score < mean - std THEN <<"medium", 7>>
          ELSE <<"low", 5>>

\* the ordering low < medium < high < immediate of the priorities
PriorityRank(priority) ==
  CASE priority = "low" -> 1
    [] priority = "medium" -> 2
    [] priority = "high" -> 3
    [] priority = "immediate" -> 4

\* the time of a zone: the base time of its priority plus 5 minutes for
\* each 500 m of its radius, at most 180
ClaimedTime(zone) ==
  LET base == CASE zone.priority = "immediate" -> 15
                [] zone.priority = "high" -> 30
                [] zone.priority = "medium" -> 60
                [] zone.priority = "low" -> 120
      time == base + 5 * (zone.radius_meters \div 500)
  IN  IF time > 180 THEN 180 ELSE time

C22_TimeMonotoneAndCapped ==
  probe.op = "evacuation_time" =>
    /\ probe.r1 <= probe.r2 => probe.t1 <= probe.t2
    /\ probe.t1 <= 180
    /\ probe.t2 <= 180

C22_Witness ==
  /\ probe.op = "evacuation_time"
  /\ probe.priority = "urgent"
  /\ probe.r1 = 2000
  /\ probe.r2 = 33000
  /\ probe.t1 = 80
  /\ probe.t2 = 180

\* C23: the zones of a response are in ascending order of radius, a zone
\* further out never has a higher priority than one closer in, and under a
\* lower risk category no zone would have a higher priority, the priorities
\* being ordered low < medium < high < immediate.
C23_PriorityMonotone ==
  (probe.op = "zones" /\ probe.result.status = 200) =>
    LET zones == probe.result.zones
    IN  /\ \A i, j \in 1..Len(zones) :
             i < j => /\ zones[i].radius_meters <= zones[j].radius_meters
                      /\ PriorityRank(zones[i].priority) >= PriorityRank(zones[j].priority)
        /\ \A i \in 1..Len(zones), lower \in RiskLevels :
             LevelRank(lower) <= LevelRank(probe.risk_level) =>
               PriorityRank(GetEvacuationPriority(zones[i].radius_meters, lower))
                 <= PriorityRank(zones[i].priority)

C23_Witness ==
  /\ probe.op = "zones"
  /\ probe.requested = <<2000, 250, 750>>
  /\ probe.risk_level = "extreme"
  /\ probe.result.status = 200
  /\ [i \in 1..3 |-> probe.result.zones[i].priority] = <<"immediate", "immediate", "high">>


C27_CountersBalance ==
  inflight = {} =>
    /\ pm.total_requests = pm.failed_requests + Len(pm.request_times)
    /\ pm.cache_hits + pm.cache_misses = pm.total_requests

C27_Witness ==
  /\ inflight = {}
  /\ pm.total_requests = 3
  /\ pm.failed_requests = 1
  /\ Len(pm.request_times) = 2
  /\ pm.cache_hits = 1
  /\ pm.cache_misses = 2


\* a step in which a flood-risk request that passed the availability check
\* returns or fails
FloodCompletes ==
  \/ Cardinality(inflight') < Cardinality(inflight)
  \/ /\ started' # started
     /\ inflight' = inflight
     /\ resp'.kind = "flood_risk"
     /\ resp'.status # 503

\* a step in which a prediction request is rejected as unavailable
RequestRejected == started' # started /\ inflight' = inflight /\ resp'.status = 503

\* C24: a successful reload of risk_scorer on its own leaves no flood_risk
\* entry in the cache that a request would be answered from: what was
\* written before the reload is not returned after it.
C24_ReloadClearsCache ==
  [][(/\ rl' # rl
      /\ rl'.op = "single" /\ rl'.name = "risk_scorer" /\ rl'.status = "success")
     => \A data \in FloodRequests :
          ~Truthy(CacheGet(cacheUp', store', "flood_risk", data, now', FALSE))]_vars

C29_AvailableWhenAllLoaded ==
  [][RequestRejected => ~(\A f \in Families : IsComplete(active[f]))]_vars


C26_BatchSameAsSingle ==
  (probe.op = "batch" /\ probe.result.status = 200) =>
    \A i \in 1..Len(probe.locations) :
      ~probe.locations[i].raises => probe.result.predictions[i] = probe.single[i]


====
